---- MODULE Spec2Model ----
(***************************************************************************)
(* A model of pyginla/numerical_methods.py: the inexact Newton driver      *)
(* `newton` with its forcing terms, deflation bookkeeping and memory cap,  *)
(* the Ritz extraction `get_ritz`, the norm helpers, the Krylov solvers    *)
(* `cg`, `minres` and `gmres`, the projection of `get_projection`, the     *)
(* Givens rotation `_givens`, the orthogonalization `orth_vec` and the     *)
(* eigensolver `jacobi_davidson`.                                          *)
(*                                                                         *)
(* Real numbers (norms, tolerances) are fixed-point integers with Scale    *)
(* units per 1.0.  The vectors themselves are not modelled: the model      *)
(* evaluator and the Jacobian are inputs, so the residual norm of each new *)
(* iterate and the outcome of each linear solve are drawn from small sets. *)
(* Arrays are modelled by their shapes (numbers of columns).               *)
(***************************************************************************)
EXTENDS Integers, Sequences, FiniteSets, TLC

VARIABLES
    newton,   \* the activation frame of newton(): its arguments and locals
    ritz,     \* the activation frame of get_ritz(): its inputs and results
    norm,     \* the activation frame of _norm() / _norm_squared()
    krylov,   \* the activation frame of cg(), minres() or gmres()
    proj,     \* the activation frame of get_projection() and of its P
    givens,   \* the activation frame of _givens()
    orth,     \* the activation frame of orth_vec()
    jd        \* the activation frame of jacobi_davidson()

vars == <<newton, ritz, norm, krylov, proj, givens, orth, jd>>

----------------------------------------------------------------------------
(* Bounds of the model. *)
MaxNewtonIter == 2
MaxKrylov == 2
MaxDeflation == 2
MaxRitzW == 1
MaxRitzKrylov == 2

----------------------------------------------------------------------------
(* Fixed-point arithmetic. *)
Scale == 10^3

Abs(a) == IF a < 0 THEN -a ELSE a
Max2(a, b) == IF a >= b THEN a ELSE b
Min2(a, b) == IF a <= b THEN a ELSE b
Max3(a, b, c) == Max2(Max2(a, b), c)

\* floor of the square root of a natural number
RECURSIVE Bisect(_, _, _)
Bisect(n, lo, hi) ==
    IF hi - lo <= 1 THEN lo
    ELSE LET mid == (lo + hi) \div 2
         IN  IF mid * mid <= n THEN Bisect(n, mid, hi) ELSE Bisect(n, lo, mid)
ISqrt(n) == Bisect(n, 0, 2^15)

FMul(a, b) == (a * b) \div Scale
FDiv(a, b) == (a * Scale) \div b
FSqrt(a) == ISqrt(a * Scale)

\* Python's None, and an optional value as a sequence of length 0 or 1.
None == <<>>
Some(v) == <<v>>
Val(o) == o[1]

\* Python 2 orders None below every number, so min(None, n) is None.
Py2Min(a, b) == IF a = None THEN None ELSE Some(Min2(Val(a), b))

Last(s) == s[Len(s)]

----------------------------------------------------------------------------
(* newton(): arguments.                                                    *)

\* The model evaluator and its Jacobian are collaborators: a problem is the
\* set of residual norms ||F(x)|| its iterates can have and the set of final
\* relative residuals its linear solves can end with.
ForcingTerms == {"constant", "type 1", "type 2", "type 3"}
LinearSolvers == {"cg", "minres", "gmres"}

\* alpha = 1.5 and gamma = 0.9, the defaults; x^alpha is x * sqrt(x).
gamma == (9 * Scale) \div 10
PowAlpha(x) == FMul(x, FSqrt(x))

\* x^golden, golden = 1.618...: the exponent is taken as 13/8 = 1 + 1/2 + 1/8,
\* which fixed-point square roots compute.
PowGolden(x) == FMul(FMul(x, FSqrt(x)), FSqrt(FSqrt(FSqrt(x))))

DefaultArgs ==
    [ model_evaluator       |-> [norms |-> {10, 40, 500}, relres |-> {1, 500}],
      N                     |-> 2,
      nonlinear_tol         |-> 10,
      newton_maxiter        |-> MaxNewtonIter,
      linear_solver         |-> "minres",
      linear_solver_maxiter |-> None,
      forcing_term          |-> "constant",
      eta0                  |-> 100,
      eta_min               |-> 1,
      eta_max               |-> 10,
      use_preconditioner    |-> FALSE,
      deflate_ix            |-> FALSE,
      num_deflation_vectors |-> 0 ]

\* Calls that vary the outer budget, the forcing term and the solver.
ControlArgs ==
    { [DefaultArgs EXCEPT !.newton_maxiter = m, !.forcing_term = ft,
                          !.linear_solver = ls] :
        m \in 0..MaxNewtonIter, ft \in ForcingTerms, ls \in LinearSolvers }

\* Calls that vary the parameters of the adaptive forcing terms.
ForcingArgs ==
    { [DefaultArgs EXCEPT !.forcing_term = ft, !.eta0 = e0, !.eta_min = emin,
                          !.linear_solver = ls] :
        ft \in {"type 1", "type 2"}, e0 \in {5, 100}, emin \in {1, 20},
        ls \in {"minres", "gmres"} }

\* Calls that vary deflation, recycling and the size of the problem.
DeflationArgs ==
    { [DefaultArgs EXCEPT !.model_evaluator = [norms |-> {10, 500}, relres |-> {1, 500}],
                          !.N = n, !.linear_solver = ls,
                          !.linear_solver_maxiter = lsm,
                          !.use_preconditioner = up, !.deflate_ix = ix,
                          !.num_deflation_vectors = ndv] :
        n \in {2, 2^12, 2^20}, ls \in {"minres", "gmres"},
        lsm \in {None, Some(0), Some(1), Some(100)},
        up \in BOOLEAN, ix \in BOOLEAN, ndv \in 0..MaxDeflation }

NewtonArgs == ControlArgs \cup ForcingArgs \cup DeflationArgs

\* No result of a linear solve yet (the local `out` is unbound).
NoOut == [info |-> 0, relresvec |-> <<>>, has_basis |-> FALSE, nVfull |-> 0,
          alloc_cols |-> 0, n_arrays |-> 0]

\* newton() lines 950-959: the frame on entry to the while loop.
NewtonEntry(args, F0) ==
    [ args                  |-> args,
      linear_solver_maxiter |-> args.linear_solver_maxiter,
      pc                    |-> "loop",
      raised                |-> "",
      error_code            |-> 0,
      k                     |-> 0,
      Fx_norms              |-> <<F0>>,
      eta_previous          |-> None,
      eta                   |-> None,
      eta_before            |-> None,
      W                     |-> 0,
      nW_start              |-> 0,
      nW_proj               |-> 0,
      nrm_u                 |-> None,
      linear_relresvecs     |-> <<>>,
      out                   |-> NoOut,
      solves                |-> 0 ]

\* The frame when newton() is not running.
NewtonIdle == [NewtonEntry(DefaultArgs, 10) EXCEPT !.pc = "idle"]

----------------------------------------------------------------------------
(* newton(): the pieces of one outer iteration.                            *)

LoopConditionInclusive(f) ==
    Last(f.Fx_norms) > f.args.nonlinear_tol /\ f.k <= f.args.newton_maxiter

\* line 960: the condition of the while loop
LoopCondition(f) ==
    Last(f.Fx_norms) > f.args.nonlinear_tol /\ f.k < f.args.newton_maxiter

UsesEta0OnlyConstant(f) == f.args.forcing_term = "constant"

\* line 972: the first iteration and the constant policy use eta0
UsesEta0(f) == f.eta_previous = None \/ f.args.forcing_term = "constant"

\* line 984: the policies the if/elif chain does not know raise ValueError,
\* when the chain gets as far as its else branch
ForcingRaises(f) ==
    ~UsesEta0(f) /\ f.args.forcing_term \notin {"type 1", "type 2"}

EtaType1Unclipped(f) ==
    LET n == Len(f.Fx_norms)
        eta1 == FDiv(Abs(f.Fx_norms[n] - Last(f.out.relresvec)), f.Fx_norms[n - 1])
    IN  Max3(eta1, PowGolden(Val(f.eta_previous)), f.args.eta_min)

EtaType1NoSafeguard(f) ==
    LET n == Len(f.Fx_norms)
        eta1 == FDiv(Abs(f.Fx_norms[n] - Last(f.out.relresvec)), f.Fx_norms[n - 1])
    IN  Min2(Max2(eta1, f.args.eta_min), f.args.eta_max)

\* lines 976-978
EtaType1(f) ==
    LET n == Len(f.Fx_norms)
        eta1 == FDiv(Abs(f.Fx_norms[n] - Last(f.out.relresvec)), f.Fx_norms[n - 1])
        eta2 == Max3(eta1, PowGolden(Val(f.eta_previous)), f.args.eta_min)
    IN  Min2(eta2, f.args.eta_max)

\* lines 980-982
EtaType2(f) ==
    LET n == Len(f.Fx_norms)
        eta1 == FMul(gamma, PowAlpha(FDiv(f.Fx_norms[n], f.Fx_norms[n - 1])))
        eta2 == Max3(eta1, FMul(gamma, PowAlpha(Val(f.eta_previous))), f.args.eta_min)
    IN  Min2(eta2, f.args.eta_max)

\* lines 972-982: the tolerance of the linear solve
ForcingTerm(f) ==
    IF UsesEta0(f) THEN f.args.eta0
    ELSE IF f.args.forcing_term = "type 1" THEN EtaType1(f)
    ELSE EtaType2(f)

\* lines 900-924: qr() returns Q with the shape of W
QrCols(nW) == nW

\* line 1022: the norm below which the symmetry direction is dropped, 1.0e-10,
\* is the unit of nrm_u
IxThreshold == 1

IxKeptInclusive(nrm_u) == nrm_u # None /\ Val(nrm_u) >= IxThreshold

\* line 1022: the test nrm_u > 1.0e-10 (None: the block of line 1011 is skipped)
IxKept(nrm_u) == nrm_u # None /\ Val(nrm_u) > IxThreshold

\* lines 1011-1024: the columns of W after the symmetry direction i*x was
\* tried; `kept` is the outcome of the test nrm_u > 1.0e-10
DeflateIx(f, nW, kept) ==
    IF f.args.deflate_ix /\ kept THEN nW + 1 ELSE nW

\* lines 1012-1021: the norms of i*x after orth_vec; orthogonalized against a
\* W that already spans the whole space it has norm zero.
IxNorms(f, nW) ==
    IF ~f.args.deflate_ix THEN {None}
    ELSE IF nW >= f.args.N THEN {Some(0)}
    ELSE {Some(0), Some(IxThreshold), Some(IxThreshold + 1)}

\* line 1044
maxmem == 2^29
BytesPerScalar == 16
NumBasisArrays == 2

\* line 1045: int(floor(maxmem/(2*16*len(x))))
MemoryCap(N) == maxmem \div (NumBasisArrays * BytesPerScalar * N)

\* lines 1039-1047
ReturnBasis(f) == f.args.num_deflation_vectors > 0

CappedMaxiter(f) ==
    IF f.args.num_deflation_vectors > 0
    THEN Py2Min(f.linear_solver_maxiter, MemoryCap(f.args.N))
    ELSE f.linear_solver_maxiter

\* lines 1050-1061: the keyword arguments of the call of linear_solver
NewtonKeywords ==
    {"maxiter", "Mr", "M", "tol", "inner_product", "return_basis",
     "explicit_residual"}

\* lines 83-90, 174-186, 680-690: the keyword parameters of the solvers
SolverParameters(solver) ==
    CASE solver = "cg" ->
            {"tol", "maxiter", "M", "explicit_residual", "inner_product",
             "exact_solution"}
      [] solver = "minres" ->
            {"tol", "maxiter", "M", "Ml", "Mr", "inner_product",
             "explicit_residual", "return_basis", "full_reortho",
             "exact_solution", "timer"}
      [] solver = "gmres" ->
            {"tol", "maxiter", "M", "Ml", "Mr", "inner_product",
             "explicit_residual", "return_basis", "exact_solution"}

\* Python raises TypeError for a keyword the callee does not declare.
CallRaises(solver) == ~(NewtonKeywords \subseteq SolverParameters(solver))

\* lines 109-110, 205-206, 728-729: the iteration budget a solver works with
EffectiveMaxiter(solver, maxiter, N) ==
    CASE solver = "gmres" ->
            IF maxiter = None \/ Val(maxiter) = 0 THEN N ELSE Val(maxiter)
      [] OTHER ->
            IF maxiter = None THEN N ELSE Val(maxiter)

\* lines 164-165: cg sets info after its loop; lines 451-456, 828-833: minres
\* and gmres set it in the last permitted iteration only
SolverInfo(solver, n, maxiter, last, tol) ==
    CASE solver = "cg"    -> IF last > tol THEN 1 ELSE 0
      [] solver = "gmres" -> IF n >= 1 /\ n = maxiter /\ last >= tol THEN 1 ELSE 0
      [] OTHER            -> IF n >= 1 /\ n = maxiter /\ last > tol THEN 1 ELSE 0

\* lines 256-259, 735-739: the columns each basis array is allocated with, and
\* lines 480-483, 842-846: the basis arrays a result holds
SolverArrays(solver, M_given) ==
    IF solver = "gmres" /\ ~M_given THEN 1 ELSE 2

\* The result of a solve with n iterations.  A solver leaves its loop before
\* the budget only on a residual <= tol (lines 283, 781); the entries
\* before the last were all > tol.
SolverResult(solver, maxiter, N, tol, M_given, return_basis, n, last) ==
    LET m == EffectiveMaxiter(solver, maxiter, N)
    IN  [ info       |-> SolverInfo(solver, n, m, last, tol),
          relresvec  |-> [i \in 1..(n + 1) |-> IF i = n + 1 THEN last ELSE Scale],
          has_basis  |-> return_basis,
          nVfull     |-> IF return_basis THEN n + 1 ELSE 0,
          alloc_cols |-> IF return_basis THEN m + 1 ELSE 0,
          n_arrays   |-> IF return_basis THEN SolverArrays(solver, M_given) ELSE 0 ]

\* The runs a solve can take: n iterations ending with the relative residual
\* `last`.  Without deflation the initial guess is zero (lines 991, 1037), so
\* the residual history starts at ||b|| / ||b|| = 1 (lines 242-248, 767).
SolverRuns(solver, maxiter, N, tol, relres, deflated) ==
    LET m == EffectiveMaxiter(solver, maxiter, N)
    IN  { run \in (0..Min2(m, MaxKrylov)) \X (relres \cup {Scale}) :
            /\ run[1] < m => run[2] <= tol
            /\ run[2] \in (IF run[1] = 0 /\ ~deflated THEN {Scale} ELSE relres) }

\* lines 595-624: the dimension of ritzmat, the number of Ritz pairs
RitzDim(nW, nVfull) == nW + (nVfull - 1)

NextWUntruncated(f, nW, out) ==
    IF out.has_basis /\ f.args.num_deflation_vectors > 0
    THEN RitzDim(nW, out.nVfull)
    ELSE 0

\* lines 1070-1096: the deflation basis for the next outer iteration
NextW(f, nW, out) ==
    IF out.has_basis
    THEN IF f.args.num_deflation_vectors > 0
         THEN Min2(f.args.num_deflation_vectors, RitzDim(nW, out.nVfull))
         ELSE 0
    ELSE 0

\* lines 1111-1112
ErrorCode(f) == IF f.k = f.args.newton_maxiter THEN 1 ELSE f.error_code

----------------------------------------------------------------------------
(* newton(): the actions.                                                  *)

\* The frame after lines 972-1047 of an outer iteration: the forcing term,
\* qr, the symmetry direction and the memory cap.
BeforeSolve(f, nrm_u) ==
    LET eta == ForcingTerm(f)
        nW  == DeflateIx(f, QrCols(f.W), IxKept(nrm_u))
    IN  [f EXCEPT !.eta = Some(eta),
                  !.nrm_u = nrm_u,
                  !.eta_previous = Some(eta),
                  !.eta_before = f.eta_previous,
                  !.nW_start = f.W,
                  !.W = nW,
                  !.nW_proj = nW,
                  !.linear_solver_maxiter = CappedMaxiter(f)]

AfterSolveAbortsOnInfo(g, out, F) ==
    IF out.info # 0
    THEN [g EXCEPT !.out = out, !.solves = g.solves + 1,
                   !.pc = "raised", !.raised = "RuntimeError"]
    ELSE [g EXCEPT !.out = out,
                   !.solves = g.solves + 1,
                   !.W = g.W,
                   !.linear_relresvecs = Append(g.linear_relresvecs, out.relresvec),
                   !.k = g.k + 1,
                   !.Fx_norms = Append(g.Fx_norms, F)]

\* The frame after lines 1049-1107: the solve, the new deflation basis, the
\* histories, the update of x and the new residual norm.
AfterSolve(g, out, F) ==
    [g EXCEPT !.out = out,
              !.solves = g.solves + 1,
              !.W = NextW(g, g.W, out),
              !.linear_relresvecs = Append(g.linear_relresvecs, out.relresvec),
              !.k = g.k + 1,
              !.Fx_norms = Append(g.Fx_norms, F)]

\* One complete outer iteration (lines 960-1109).
NewtonIterate ==
    /\ newton.pc = "loop"
    /\ LoopCondition(newton)
    /\ ~ForcingRaises(newton)
    /\ ~CallRaises(newton.args.linear_solver)
    /\ \E nrm_u \in IxNorms(newton, QrCols(newton.W)) :
         LET g == BeforeSolve(newton, nrm_u)
         IN  \E run \in SolverRuns(g.args.linear_solver, g.linear_solver_maxiter,
                                   g.args.N, Val(g.eta), g.args.model_evaluator.relres,
                                   g.W > 0) :
             \E F \in g.args.model_evaluator.norms :
               LET out == SolverResult(g.args.linear_solver, g.linear_solver_maxiter,
                                       g.args.N, Val(g.eta), g.args.use_preconditioner,
                                       ReturnBasis(g), run[1], run[2])
               IN  newton' = AfterSolve(g, out, F)
    /\ UNCHANGED <<ritz, norm, krylov, proj, givens, orth, jd>>

\* An outer iteration that ends at line 984.
NewtonForcingError ==
    /\ newton.pc = "loop"
    /\ LoopCondition(newton)
    /\ ForcingRaises(newton)
    /\ newton' = [newton EXCEPT !.pc = "raised", !.raised = "ValueError"]
    /\ UNCHANGED <<ritz, norm, krylov, proj, givens, orth, jd>>

\* An outer iteration that ends in the call of linear_solver (line 1050).
NewtonCallError ==
    /\ newton.pc = "loop"
    /\ LoopCondition(newton)
    /\ ~ForcingRaises(newton)
    /\ CallRaises(newton.args.linear_solver)
    /\ \E nrm_u \in IxNorms(newton, QrCols(newton.W)) :
         newton' = [BeforeSolve(newton, nrm_u) EXCEPT !.pc = "raised",
                                                     !.raised = "TypeError"]
    /\ UNCHANGED <<ritz, norm, krylov, proj, givens, orth, jd>>

\* The loop ends and newton returns (lines 1111-1114).
NewtonReturn ==
    /\ newton.pc = "loop"
    /\ ~LoopCondition(newton)
    /\ newton' = [newton EXCEPT !.pc = "returned", !.error_code = ErrorCode(newton)]
    /\ UNCHANGED <<ritz, norm, krylov, proj, givens, orth, jd>>

----------------------------------------------------------------------------
(* get_ritz().                                                             *)

RECURSIVE SeqsOf(_, _)
SeqsOf(S, n) ==
    IF n = 0 THEN {<<>>}
    ELSE { Append(s, v) : s \in SeqsOf(S, n - 1), v \in S }

IsAscending(s) == \A i \in 1..(Len(s) - 1) : s[i] <= s[i + 1]

IndexPermutations(n) ==
    { p \in [1..n -> 1..n] : \A i, j \in 1..n : i # j => p[i] # p[j] }

\* line 672, np.argsort(a): the index array that puts a in ascending order.
\* Arrays this short are sorted by insertion, which keeps equal keys in
\* their order.
ArgSort(a) ==
    CHOOSE p \in IndexPermutations(Len(a)) :
        \A i, j \in 1..Len(a) :
            i < j => (a[p[i]] < a[p[j]] \/ (a[p[i]] = a[p[j]] /\ p[i] < p[j]))

\* a[sorti] for an index array sorti
Take(a, sorti) == [j \in 1..Len(sorti) |-> a[sorti[j]]]

\* scipy's eigh: real eigenvalues in ascending order
EigVals == {-3, 1, 2}
EighValues(dim) == { lam \in SeqsOf(EigVals, dim) : IsAscending(lam) }

\* lines 640-657: one residual norm sqrt(abs(res_ip)) per eigenpair
ResNorms == {1, 4}

\* line 672: abs(lam)
SortKey(lam) == [i \in 1..Len(lam) |-> Abs(lam[i])]

\* lines 673-676: the three results, permuted by sorti.  A Ritz vector is
\* named by the eigenpair it is built from.
RitzVals(lam, sorti) == Take(lam, sorti)
RitzVecs(dim, sorti) == Take([i \in 1..dim |-> i], sorti)
NormRitzResUnpermuted(res, sorti) == res
NormRitzRes(res, sorti) == Take(res, sorti)

GetRitzCall(nW, nVfull, lam, res) ==
    [ pc |-> "call", nW |-> nW, nVfull |-> nVfull, lam |-> lam, res |-> res,
      ritz_vals |-> <<>>, ritz_vecs |-> <<>>, norm_ritz_res |-> <<>> ]

RitzIdle == [GetRitzCall(0, 1, <<>>, <<>>) EXCEPT !.pc = "idle"]

GetRitz ==
    /\ ritz.pc = "call"
    /\ LET sorti == ArgSort(SortKey(ritz.lam))
       IN  ritz' = [ritz EXCEPT !.pc = "done",
                              !.ritz_vals = RitzVals(ritz.lam, sorti),
                              !.ritz_vecs = RitzVecs(RitzDim(ritz.nW, ritz.nVfull), sorti),
                              !.norm_ritz_res = NormRitzRes(ritz.res, sorti)]
    /\ UNCHANGED <<newton, norm, krylov, proj, givens, orth, jd>>

----------------------------------------------------------------------------
(* _norm_squared() and _norm().                                            *)

\* An inner product rho = re + i*im.  re is fixed-point; im is counted in
\* units 10^10 times finer, so that the relative threshold 1e-10 of line 56
\* lies between the values of the model.
Rho(re, im) == [re |-> re, im |-> im]

\* the check of line 55, which is commented out in the source
ImagNonzero(rho) == rho.im # 0

\* line 56: abs(rho.imag) > abs(rho) * 1e-10.  In the units above this is
\* im^2 > re^2 + im^2 * 1e-20, and the last term is less than one unit.
ImagExceeds(rho) == rho.im * rho.im > rho.re * rho.re

\* lines 56-62: the two raises of ValueError
NormSquaredRaises(rho) == ImagExceeds(rho) \/ rho.re < 0

\* lines 59, 64
NormSquared(rho) == rho.re

\* line 68
Norm(rho) == FSqrt(NormSquared(rho))

NormFunctions == {"_norm_squared", "_norm"}
RealParts == {-4000, -1, 0, 1, 1000, 4000, 9000}
ImagParts == {-4001, -1000, -1, 0, 1, 1000, 4001}

NormCall(fn, rho) ==
    [pc |-> "call", fn |-> fn, rho |-> rho, raised |-> "", result |-> None]

NormIdle == [NormCall("_norm", Rho(0, 0)) EXCEPT !.pc = "idle"]

\* One call of _norm_squared (lines 44-64) or of _norm (lines 66-68).
NormReturn ==
    /\ norm.pc = "call"
    /\ norm' = IF NormSquaredRaises(norm.rho)
               THEN [norm EXCEPT !.pc = "raised", !.raised = "ValueError"]
               ELSE [norm EXCEPT !.pc = "returned",
                                 !.result = Some(IF norm.fn = "_norm"
                                                 THEN Norm(norm.rho)
                                                 ELSE NormSquared(norm.rho))]
    /\ UNCHANGED <<newton, ritz, krylov, proj, givens, orth, jd>>

----------------------------------------------------------------------------
(* cg(), minres() and gmres(): arguments and frame.                        *)

\* The operator, the right-hand side and the vectors are not modelled: the
\* residual norms a solve meets are drawn from Residuals.  Relative
\* residuals are counted in units of machine epsilon, the smallest positive
\* value of the model; One stands for 1.0 and lies above every tolerance.
eps == 1
One == Scale
Residuals == {0, eps, 3, 5}
Tolerances == {0, 3}

\* The preconditioner M: absent, positive definite, or indefinite.
Preconditioners == {"None", "spd", "indefinite"}

\* The values <z, Mz> can take (lines 44-53).
Forms(M) ==
    IF M = "indefinite" THEN {Rho(Scale, 0), Rho(-Scale, 0)} ELSE {Rho(Scale, 0)}

KrylovDefaults ==
    [ solver            |-> "minres",
      N                 |-> MaxKrylov,
      tol               |-> 3,
      maxiter           |-> Some(MaxKrylov),
      M                 |-> "None",
      explicit_residual |-> FALSE,
      return_basis      |-> FALSE,
      full_reortho      |-> FALSE,
      exact_solution    |-> FALSE,
      r0                |-> One ]

\* Calls that vary the tolerance, the budget and the initial guess; r0 is
\* the relative residual of x0.
BudgetArgs ==
    { [KrylovDefaults EXCEPT !.solver = s, !.tol = t, !.maxiter = m,
                             !.explicit_residual = er, !.r0 = r] :
        s \in LinearSolvers, t \in Tolerances,
        m \in {None} \cup {Some(i) : i \in 0..MaxKrylov},
        er \in BOOLEAN, r \in {0, 3, 5, One} }

\* Calls that vary the preconditioner and the results asked for.  cg has no
\* parameter return_basis, and only minres has full_reortho (lines 83-90,
\* 174-186, 680-690).
BasisArgs ==
    { a \in { [KrylovDefaults EXCEPT !.solver = s, !.M = m,
                                     !.explicit_residual = er,
                                     !.return_basis = rb, !.full_reortho = fr,
                                     !.exact_solution = ex] :
                s \in LinearSolvers, m \in Preconditioners, er \in BOOLEAN,
                rb \in BOOLEAN, fr \in BOOLEAN, ex \in BOOLEAN } :
        /\ a.solver = "cg" => ~a.return_basis
        /\ a.solver # "minres" => ~a.full_reortho }

\* Calls that ask for the basis under every budget.
ShapeArgs ==
    { [KrylovDefaults EXCEPT !.solver = s, !.M = m, !.maxiter = mi,
                             !.return_basis = TRUE] :
        s \in {"minres", "gmres"}, m \in {"None", "spd"},
        mi \in {None} \cup {Some(i) : i \in 0..MaxKrylov} }

KrylovArgs == BudgetArgs \cup BasisArgs \cup ShapeArgs

\* No result yet.
NoRet == [keys |-> {}, Vfull |-> 0, Pfull |-> 0, Hfull |-> <<0, 0>>,
          Hentries |-> <<>>]

\* The frame on entry.  relresvec is the residual history; estimates and
\* explicits tell, entry by entry, the implicitly updated residual that was
\* recorded first and the explicitly computed residual (None where there is
\* none).  neg_forms counts the negative values of <z, Mz> met so far, xk_of
\* is the iteration whose iterate xk holds, xk_obj is the array object the
\* solution variable names, written is the set of array objects written in
\* place, and alloc is the number of columns the basis arrays are allocated
\* with.  Hfull is the array of minres (a function of <<row, column>>, <<>>
\* when it is not allocated), tds and tss the values td and ts of the
\* iterations that stored into it.
KrylovEntry(args) ==
    [ args      |-> args,
      pc        |-> "setup",
      raised    |-> "",
      maxiter   |-> args.maxiter,
      info      |-> 0,
      k         |-> 0,
      relresvec |-> <<>>,
      estimates |-> <<>>,
      explicits |-> <<>>,
      neg_forms |-> 0,
      xk_of     |-> 0,
      xk_obj    |-> "unbound",
      written   |-> {},
      alloc     |-> 0,
      Hfull     |-> <<>>,
      tds       |-> <<>>,
      tss       |-> <<>>,
      ret       |-> NoRet ]

KrylovIdle == [KrylovEntry(KrylovDefaults) EXCEPT !.pc = "idle"]

----------------------------------------------------------------------------
(* cg(), minres() and gmres(): the steps.                                  *)

\* A residual norm taken through _norm or _norm_squared: ValueError when
\* the form is not accepted, a value otherwise.
Evaluation(raises, value) == [raises |-> raises, value |-> value]
Evaluations(M) ==
    {Evaluation(FALSE, v) : v \in Residuals}
        \cup {Evaluation(TRUE, 0) : rho \in {q \in Forms(M) : NormSquaredRaises(q)}}

\* lines 129, 283, 781: the loop condition, the same in the three solvers
LoopContinues(f) ==
    Last(f.relresvec) > f.args.tol /\ f.k < Val(f.maxiter)

\* line 155: cg recomputes an updated residual below the tolerance
CgRecompute(f, est) == est < f.args.tol

MinresRecomputeOnLastOnly(f, est) == f.k + 1 = Val(f.maxiter)

\* line 444: minres recomputes at the tolerance and in the last iteration
MinresRecompute(f, est) == est <= f.args.tol \/ f.k + 1 = Val(f.maxiter)

\* line 819: gmres recomputes below the tolerance and in the last iteration
GmresRecompute(f, est) == est < f.args.tol \/ f.k + 1 = Val(f.maxiter)

Recompute(f, est) ==
    CASE f.args.solver = "cg"     -> CgRecompute(f, est)
      [] f.args.solver = "minres" -> MinresRecompute(f, est)
      [] f.args.solver = "gmres"  -> GmresRecompute(f, est)

\* The residual of one iteration: the value recorded first (lines 152-154,
\* 437-441, 811-816) and its explicit recomputation (lines 155-160,
\* 447-449, 822-825).  cg takes every residual through _norm_squared; minres
\* and gmres take the updated residual from the rotated right-hand side.
Update(raises, estimate, explicit, value) ==
    [raises |-> raises, estimate |-> estimate, explicit |-> explicit, value |-> value]

FirstEvaluations(f) ==
    IF f.args.solver = "cg" \/ f.args.explicit_residual
    THEN Evaluations(f.args.M)
    ELSE {Evaluation(FALSE, v) : v \in Residuals}

ResidualUpdates(f) ==
    UNION { IF e.raises
            THEN {Update(TRUE, None, None, 0)}
            ELSE IF f.args.explicit_residual
            THEN {Update(FALSE, None, Some(e.value), e.value)}
            ELSE IF Recompute(f, e.value)
            THEN { IF x.raises
                   THEN Update(TRUE, None, None, 0)
                   ELSE Update(FALSE, Some(e.value), Some(x.value), x.value) :
                       x \in Evaluations(f.args.M) }
            ELSE {Update(FALSE, Some(e.value), None, e.value)} :
                e \in FirstEvaluations(f) }

\* the value lines 444 and 819 test: the one recorded first
Recorded(u) == IF u.estimate = None THEN u.value ELSE Val(u.estimate)

CgInfoAfterIteration(f) ==
    IF f.k >= 1 /\ f.k = Val(f.maxiter) /\ Last(f.relresvec) > f.args.tol
    THEN 1 ELSE f.info

\* lines 164-165
CgInfo(f) == IF Last(f.relresvec) > f.args.tol THEN 1 ELSE f.info

\* lines 444-456
MinresInfo(f, u) ==
    IF /\ Recorded(u) <= f.args.tol \/ f.k + 1 = Val(f.maxiter)
       /\ u.value > f.args.tol
       /\ f.k + 1 = Val(f.maxiter)
    THEN 1 ELSE f.info

\* lines 819-833
GmresInfo(f, u) ==
    IF /\ Recorded(u) < f.args.tol \/ f.k + 1 = Val(f.maxiter)
       /\ u.value >= f.args.tol
       /\ f.k + 1 = Val(f.maxiter)
    THEN 1 ELSE f.info

\* line 468: max(np.finfo(float).eps, relresvec[-1])
Floor(value) == Max2(eps, value)

MinresXkOnExactSolutionOnly(f, u) ==
    IF f.args.exact_solution THEN f.k + 1 ELSE f.xk_of

\* lines 422-426, 438, 448: minres refreshes xk when it has
\* an exact solution to compare with or computes an explicit residual
MinresXk(f, u) ==
    IF f.args.exact_solution \/ u.explicit # None THEN f.k + 1 ELSE f.xk_of

\* lines 423, 426: the array xk names after an iteration of minres
MinresXkObject(f, u) ==
    IF f.args.exact_solution \/ u.explicit # None THEN "x0 + Mr*yk" ELSE f.xk_obj

\* One more entry of the history, and k += 1.
Record(f, u, value, info, xk_of) ==
    [f EXCEPT !.relresvec = Append(@, value),
              !.estimates = Append(@, u.estimate),
              !.explicits = Append(@, u.explicit),
              !.info = info,
              !.xk_of = xk_of,
              !.k = @ + 1]

\* lines 57, 62: _norm_squared raises on a form it does not accept
Raise(f) ==
    [f EXCEPT !.pc = "raised", !.raised = "ValueError", !.neg_forms = @ + 1]

\* lines 256-259, 735-739: the columns of the basis arrays
Allocated(args, maxiter) ==
    CASE args.solver = "cg"     -> 0
      [] args.solver = "minres" ->
            IF args.return_basis \/ args.full_reortho THEN maxiter + 1 ELSE 0
      [] args.solver = "gmres"  -> maxiter + 1

\* The array objects.  The caller owns x0 and b; every other name is an
\* array the solver made.
CallerObjects == {"x0", "b"}

\* lines 97, 273-275: the object the solution variable names before the
\* loop.  cg copies x0, minres binds xk to x0 itself, gmres has no solution
\* variable before line 841.
InitialXk(solver) ==
    CASE solver = "cg"     -> "x0.copy()"
      [] solver = "minres" -> "x0"
      [] solver = "gmres"  -> "unbound"

\* line 259: np.zeros((maxiter+1, maxiter))
HfullZeros(maxiter) ==
    [ij \in (0..maxiter) \X (0..(maxiter - 1)) |-> 0]

HfullStoreLower(H, k, td, ts, maxiter) ==
    [ij \in DOMAIN H |->
        IF ij = <<k, k>> THEN td
        ELSE IF ij = <<k + 1, k>> THEN ts
        ELSE H[ij]]

\* lines 381-384: Hfull[k,k] = td, Hfull[k+1,k] = ts and, if k+1 < maxiter,
\* Hfull[k,k+1] = ts
HfullStore(H, k, td, ts, maxiter) ==
    [ij \in DOMAIN H |->
        IF ij = <<k, k>> THEN td
        ELSE IF ij = <<k + 1, k>> THEN ts
        ELSE IF ij = <<k, k + 1>> /\ k + 1 < maxiter THEN ts
        ELSE H[ij]]

\* line 483: Hfull[0:k+1, 0:k]
HfullSlice(H, k) ==
    [ij \in {q \in DOMAIN H : q[1] < k + 1 /\ q[2] < k} |-> H[ij]]

\* The values td (lines 300-303) and ts = sqrt(alpha) (line 358) of an iteration
\* that stores them; ts is 0.0 when alpha was negative (lines 351-357).
Diagonals == {-2, 4}
Subdiagonals(alpha) == IF alpha.re < 0 THEN {0} ELSE {1, 3}

\* lines 92-127, 203-275, 719-779: everything before the loop.  cg starts
\* its history with 1.0, minres and gmres with the residual of x0.
KrylovSetup ==
    /\ krylov.pc = "setup"
    /\ \E rho \in Forms(krylov.args.M) :
         LET a == krylov.args
             m == EffectiveMaxiter(a.solver, a.maxiter, a.N)
         IN  krylov' =
               IF NormSquaredRaises(rho)
               THEN Raise(krylov)
               ELSE [krylov EXCEPT
                       !.pc = "loop",
                       !.maxiter = Some(m),
                       !.alloc = Allocated(a, m),
                       !.xk_obj = InitialXk(a.solver),
                       !.Hfull = IF a.solver = "minres" /\ Allocated(a, m) > 0
                                 THEN HfullZeros(m) ELSE <<>>,
                       !.relresvec = <<IF a.solver = "cg" THEN One ELSE a.r0>>,
                       !.estimates = <<None>>,
                       !.explicits = <<IF a.solver = "cg" THEN None ELSE Some(a.r0)>>]
    /\ UNCHANGED <<newton, ritz, norm, proj, givens, orth, jd>>

\* One iteration of cg (lines 129-162).
CgIterate ==
    /\ krylov.pc = "loop"
    /\ krylov.args.solver = "cg"
    /\ LoopContinues(krylov)
    /\ \E u \in ResidualUpdates(krylov) :
         krylov' = IF u.raises
                   THEN Raise(krylov)
                   ELSE [Record(krylov, u, u.value, krylov.info, krylov.k + 1)
                           EXCEPT !.written = @ \cup {krylov.xk_obj, "r"}]
    /\ UNCHANGED <<newton, ritz, norm, proj, givens, orth, jd>>

\* One iteration of minres (lines 283-469).  A negative alpha = <z, Mz> is
\* reported and replaced by 0.0 (lines 350-358).
MinresIterate ==
    /\ krylov.pc = "loop"
    /\ krylov.args.solver = "minres"
    /\ LoopContinues(krylov)
    /\ \E alpha \in Forms(krylov.args.M) :
         \E u \in ResidualUpdates(krylov) :
            \E td \in IF krylov.alloc > 0 THEN Diagonals ELSE {0} :
              \E ts \in IF krylov.alloc > 0 THEN Subdiagonals(alpha) ELSE {0} :
                LET f == [krylov EXCEPT
                            !.neg_forms = IF alpha.re < 0 THEN @ + 1 ELSE @]
                    g == IF f.alloc > 0
                         THEN [f EXCEPT
                                 !.Hfull = HfullStore(@, f.k, td, ts, Val(f.maxiter)),
                                 !.tds = Append(@, td),
                                 !.tss = Append(@, ts)]
                         ELSE f
                IN  krylov' =
                      IF u.raises
                      THEN Raise(g)
                      ELSE [Record(g, u, Floor(u.value), MinresInfo(g, u),
                                   MinresXk(g, u))
                              EXCEPT !.xk_obj = MinresXkObject(g, u),
                                     !.written = @ \cup
                                        (IF u.explicit # None THEN {"r_exp"} ELSE {})]
    /\ UNCHANGED <<newton, ritz, norm, proj, givens, orth, jd>>

\* One iteration of gmres (lines 781-838).  H[k+1, k] is taken by _norm
\* (line 794).
GmresIterate ==
    /\ krylov.pc = "loop"
    /\ krylov.args.solver = "gmres"
    /\ LoopContinues(krylov)
    /\ \E h \in Forms(krylov.args.M) :
         \E u \in ResidualUpdates(krylov) :
            krylov' = IF NormSquaredRaises(h) \/ u.raises
                      THEN Raise(krylov)
                      ELSE Record(krylov, u, u.value, GmresInfo(krylov, u),
                                  krylov.xk_of)
    /\ UNCHANGED <<newton, ritz, norm, proj, givens, orth, jd>>

\* the length of a[0:hi] for an array of length n
SliceLen(n, hi) == Max2(0, Min2(n, hi))

BasisColumnsShort(f) == SliceLen(f.alloc, f.k)

\* lines 481-482, 843, 846: Vfull[:, 0:k+1], Pfull[:, 0:k+1]
BasisColumns(f) == SliceLen(f.alloc, f.k + 1)

\* lines 483, 844: Hfull[0:k+1, 0:k] of an array of shape (maxiter+1, maxiter)
HessenbergShape(f) ==
    <<SliceLen(Val(f.maxiter) + 1, f.k + 1), SliceLen(Val(f.maxiter), f.k)>>

\* The keys of the result and the shapes of its arrays (lines 167-170,
\* 473-483, 840-846).
CgResult(f) ==
    [NoRet EXCEPT !.keys = {"info", "xk", "relresvec"}
                      \cup (IF f.args.exact_solution THEN {"errorvec"} ELSE {})]

MinresResult(f) ==
    IF f.args.return_basis
    THEN [ keys  |-> {"xk", "info", "relresvec", "Vfull", "Pfull", "Hfull"}
                        \cup (IF f.args.exact_solution THEN {"errvec"} ELSE {}),
           Vfull |-> BasisColumns(f),
           Pfull |-> BasisColumns(f),
           Hfull |-> HessenbergShape(f),
           Hentries |-> HfullSlice(f.Hfull, f.k) ]
    ELSE [NoRet EXCEPT !.keys = {"xk", "info", "relresvec"}
                           \cup (IF f.args.exact_solution THEN {"errvec"} ELSE {})]

GmresResult(f) ==
    IF f.args.return_basis
    THEN [ keys  |-> {"info", "relresvec", "xk", "Vfull", "Hfull"}
                        \cup (IF f.args.M # "None" THEN {"Pfull"} ELSE {})
                        \cup (IF f.args.exact_solution THEN {"errorvec"} ELSE {}),
           Vfull |-> BasisColumns(f),
           Pfull |-> IF f.args.M # "None" THEN BasisColumns(f) ELSE 0,
           Hfull |-> HessenbergShape(f),
           Hentries |-> <<>> ]
    ELSE [NoRet EXCEPT !.keys = {"info", "relresvec", "xk"}
                           \cup (IF f.args.exact_solution THEN {"errorvec"} ELSE {})]

\* lines 164-172
CgReturn ==
    /\ krylov.pc = "loop"
    /\ krylov.args.solver = "cg"
    /\ ~LoopContinues(krylov)
    /\ krylov' = [krylov EXCEPT !.pc = "returned",
                                !.info = CgInfo(krylov),
                                !.ret = CgResult(krylov)]
    /\ UNCHANGED <<newton, ritz, norm, proj, givens, orth, jd>>

\* lines 473-489
MinresReturn ==
    /\ krylov.pc = "loop"
    /\ krylov.args.solver = "minres"
    /\ ~LoopContinues(krylov)
    /\ krylov' = [krylov EXCEPT !.pc = "returned",
                                !.ret = MinresResult(krylov)]
    /\ UNCHANGED <<newton, ritz, norm, proj, givens, orth, jd>>

\* lines 840-847: xk is computed from the k columns of the basis
GmresReturn ==
    /\ krylov.pc = "loop"
    /\ krylov.args.solver = "gmres"
    /\ ~LoopContinues(krylov)
    /\ krylov' = [krylov EXCEPT !.pc = "returned",
                                !.xk_of = krylov.k,
                                !.xk_obj = "x0 + u",
                                !.ret = GmresResult(krylov)]
    /\ UNCHANGED <<newton, ritz, norm, proj, givens, orth, jd>>

----------------------------------------------------------------------------
(* Complex scalars.                                                        *)

Complex(re, im) == [re |-> re, im |-> im]
Zero == Complex(0, 0)
Re(x) == Complex(x, 0)
Conj(z) == Complex(z.re, -z.im)
Neg(z) == Complex(-z.re, -z.im)
CAdd(z, w) == Complex(z.re + w.re, z.im + w.im)
CSub(z, w) == Complex(z.re - w.re, z.im - w.im)
\* the product of scalars with integer parts
ZMul(z, w) == Complex(z.re * w.re - z.im * w.im, z.re * w.im + z.im * w.re)

RECURSIVE ZSum(_)
ZSum(s) == IF s = <<>> THEN Zero ELSE CAdd(Head(s), ZSum(Tail(s)))

----------------------------------------------------------------------------
(* get_projection() and the projection P it returns.                       *)

\* Arrays with Gaussian-integer entries: a vector is a sequence of entries,
\* an N x k array the sequence of its k columns.  A quotient is kept exact
\* as a numerator and a denominator.

\* lines 29-42: _ipstd(X, Y) = X^H * Y, here for single columns u and v
Dot(u, v) == ZSum([n \in 1..Len(u) |-> ZMul(Conj(u[n]), v[n])])

\* _ipstd(X, y) for an array X and a single column y
ipstd(X, y) == [i \in 1..Len(X) |-> Dot(X[i], y)]

\* line 534: E = inner_product(W, AW), the sequence of its rows
Gram(W, AW) == [i \in 1..Len(W) |-> [j \in 1..Len(AW) |-> Dot(W[i], AW[j])]]

\* np.dot(W, c)
MatVec(W, c) ==
    [n \in 1..Len(W[1]) |-> ZSum([j \in 1..Len(W) |-> ZMul(W[j][n], c[j])])]

Quotient(num, den) == [num |-> num, den |-> den]

Det(E) ==
    IF Len(E) = 1
    THEN E[1][1]
    ELSE CSub(ZMul(E[1][1], E[2][2]), ZMul(E[1][2], E[2][1]))

\* the adjugate of E applied to rhs
AdjTimes(E, rhs) ==
    IF Len(E) = 1
    THEN rhs
    ELSE << CSub(ZMul(E[2][2], rhs[1]), ZMul(E[1][2], rhs[2])),
            CSub(ZMul(E[1][1], rhs[2]), ZMul(E[2][1], rhs[1])) >>

\* lines 491-496: np.linalg.solve(E, rhs), which raises LinAlgError for a
\* singular E
DirectSolveRaises(E) == Det(E) = Zero
DirectSolve(E, rhs) == Quotient(AdjTimes(E, rhs), Det(E))

\* P as the docstring states it (line 517): x + W * E^{-1} * <AW, x>
PfunDocstring(W, AW, E, x) ==
    LET s  == DirectSolve(E, ipstd(AW, x.num))
        Ws == MatVec(W, s.num)
    IN  Quotient([n \in 1..Len(x.num) |-> CAdd(ZMul(s.den, x.num[n]), Ws[n])],
                 ZMul(s.den, x.den))

\* lines 528-530: Pfun(x) = x - W * E^{-1} * <AW, x>
Pfun(W, AW, E, x) ==
    LET s  == DirectSolve(E, ipstd(AW, x.num))
        Ws == MatVec(W, s.num)
    IN  Quotient([n \in 1..Len(x.num) |-> CSub(ZMul(s.den, x.num[n]), Ws[n])],
                 ZMul(s.den, x.den))

\* lines 537, 546: x0new = P*x0 + W * E^{-1} * <W, b>
AdaptedGuess(W, AW, E, b, x0) ==
    LET EWb  == DirectSolve(E, ipstd(W, b))
        Px0  == Pfun(W, AW, E, Quotient(x0, Re(1)))
        WEWb == MatVec(W, EWb.num)
    IN  Quotient([n \in 1..Len(x0) |-> CAdd(Px0.num[n], WEWb[n])], EWb.den)

\* The operators A (by their columns), the deflation bases W and the
\* vectors of the model.
Columns ==
    { <<Re(2), Zero, Zero>>, <<Zero, Re(2), Complex(0, -1)>>,
      <<Zero, Complex(0, 1), Re(2)>>, <<Re(-1), Re(2), Zero>>,
      <<Re(2), Re(-1), Zero>>, <<Zero, Zero, Zero>> }
Operators == { <<c1, c2, c3>> : c1 \in Columns, c2 \in Columns, c3 \in Columns }
Bases ==
    { << <<Re(1), Zero, Zero>> >>,
      << <<Re(1), Complex(0, 1), Zero>> >>,
      << <<Re(1), Zero, Zero>>, <<Zero, Re(1), Zero>> >>,
      << <<Re(1), Re(1), Zero>>, <<Zero, Complex(0, 1), Re(1)>> >> }
Vectors ==
    { <<Re(1), Zero, Zero>>, <<Zero, Re(1), Re(1)>>,
      <<Re(1), Complex(0, -1), Re(2)>> }

\* A*W, column by column
Apply(A, W) == [j \in 1..Len(W) |-> MatVec(A, W[j])]

ProjCall(W, AW, b, x0, x) ==
    [ pc |-> "call", W |-> W, AW |-> AW, b |-> b, x0 |-> x0, x |-> x,
      raised |-> "", E |-> <<>>, x0new |-> None, Px |-> None, PPx |-> None ]

ProjIdle ==
    [ProjCall(<< <<Zero>> >>, << <<Zero>> >>, <<Zero>>, <<Zero>>, <<Zero>>)
        EXCEPT !.pc = "idle"]

\* get_projection (lines 498-548)
GetProjection ==
    /\ proj.pc = "call"
    /\ LET E == Gram(proj.W, proj.AW)
       IN  proj' =
             IF DirectSolveRaises(E)
             THEN [proj EXCEPT !.pc = "raised", !.raised = "LinAlgError", !.E = E]
             ELSE [proj EXCEPT
                     !.pc = "returned",
                     !.E = E,
                     !.x0new = Some(AdaptedGuess(proj.W, proj.AW, E, proj.b, proj.x0))]
    /\ UNCHANGED <<newton, ritz, norm, krylov, givens, orth, jd>>

\* P*x for the argument x (lines 528-530)
ApplyProjection ==
    /\ proj.pc = "returned"
    /\ proj' = [proj EXCEPT
                  !.pc = "applied",
                  !.Px = Some(Pfun(proj.W, proj.AW, proj.E, Quotient(proj.x, Re(1))))]
    /\ UNCHANGED <<newton, ritz, norm, krylov, givens, orth, jd>>

\* P*(P*x)
ApplyProjectionAgain ==
    /\ proj.pc = "applied"
    /\ proj' = [proj EXCEPT
                  !.pc = "applied twice",
                  !.PPx = Some(Pfun(proj.W, proj.AW, proj.E, Val(proj.Px)))]
    /\ UNCHANGED <<newton, ritz, norm, krylov, givens, orth, jd>>

----------------------------------------------------------------------------
(* _givens().                                                              *)

\* Here the real and imaginary parts are fixed-point.
CAbs(z) == ISqrt(z.re * z.re + z.im * z.im)
CMul(z, w) ==
    Complex(FMul(z.re, w.re) - FMul(z.im, w.im), FMul(z.re, w.im) + FMul(z.im, w.re))
\* z / r for a real r > 0
CDiv(z, r) == Complex(FDiv(z.re, r), FDiv(z.im, r))

\* lines 854-869: the branch taken
GivensBranch(a, b) ==
    CASE CAbs(b) = 0       -> "b = 0"
      [] CAbs(a) = 0       -> "a = 0"
      [] CAbs(b) > CAbs(a) -> "scaled by |b|"
      [] OTHER             -> "scaled by |a|"

\* line 856: a.conjugate() / r with r = 0.  A numpy scalar gives nan and a
\* warning, a Python scalar raises ZeroDivisionError.
DivisionByZero(a, b) == CAbs(b) = 0 /\ CAbs(a) = 0
DivisionOutcomes == {"nan", "ZeroDivisionError"}

\* lines 865, 872: u = sqrt(1 + t.real**2 + t.imag**2)
Hypot(t) == FSqrt(Scale + FMul(t.re, t.re) + FMul(t.im, t.im))

\* lines 854-875: c, s and r
GivensValues(a, b) ==
    CASE GivensBranch(a, b) = "b = 0" ->
            [r |-> CAbs(a), c |-> CDiv(Conj(a), CAbs(a)), s |-> Zero]
      [] GivensBranch(a, b) = "a = 0" ->
            [r |-> CAbs(b), c |-> Zero, s |-> CDiv(Conj(b), CAbs(b))]
      [] GivensBranch(a, b) = "scaled by |b|" ->
            LET absb == CAbs(b)
                t    == CDiv(Conj(a), absb)
                u    == Hypot(t)
            IN  [r |-> FMul(absb, u), c |-> CDiv(t, u),
                 s |-> CDiv(CDiv(Conj(b), absb), u)]
      [] OTHER ->
            LET absa == CAbs(a)
                t    == CDiv(Conj(b), absa)
                u    == Hypot(t)
            IN  [r |-> FMul(absa, u), c |-> CDiv(CDiv(Conj(a), absa), u),
                 s |-> CDiv(t, u)]

\* lines 876-877: the rotation [[c, s], [-conj(s), conj(c)]], row by row
Rotation(c, s) == << <<c, s>>, <<Neg(Conj(s)), Conj(c)>> >>

\* the rotation applied to (a, b)
Rotate(G, a, b) ==
    << CAdd(CMul(G[1][1], a), CMul(G[1][2], b)),
       CAdd(CMul(G[2][1], a), CMul(G[2][2], b)) >>

GivensScalars ==
    { Zero, Complex(3000, 0), Complex(-4000, 0), Complex(0, 3000),
      Complex(0, -4000), Complex(3000, 4000), Complex(1000, 0),
      Complex(-1000, 1000) }

GivensCall(a, b) ==
    [ pc |-> "call", a |-> a, b |-> b, raised |-> "", nan |-> FALSE,
      branch |-> "", r |-> 0, G |-> Rotation(Zero, Zero) ]

GivensIdle == [GivensCall(Zero, Zero) EXCEPT !.pc = "idle"]

\* One call of _givens (lines 849-877).
Givens ==
    /\ givens.pc = "call"
    /\ LET a == givens.a
           b == givens.b
       IN  IF DivisionByZero(a, b)
           THEN \E outcome \in DivisionOutcomes :
                  givens' =
                    IF outcome = "nan"
                    THEN [givens EXCEPT !.pc = "returned", !.nan = TRUE,
                                        !.branch = GivensBranch(a, b)]
                    ELSE [givens EXCEPT !.pc = "raised",
                                        !.raised = "ZeroDivisionError",
                                        !.branch = GivensBranch(a, b)]
           ELSE LET v == GivensValues(a, b)
                IN  givens' = [givens EXCEPT !.pc = "returned",
                                             !.branch = GivensBranch(a, b),
                                             !.r = v.r,
                                             !.G = Rotation(v.c, v.s)]
    /\ UNCHANGED <<newton, ritz, norm, krylov, proj, orth, jd>>

----------------------------------------------------------------------------
(* orth_vec(): modified Gram-Schmidt with one refinement.  The vector v is *)
(* represented by <v, v>, the array W by its number of columns.            *)

\* line 894
kappa == Scale \div 4

\* The values <v, v> takes.
SquaredNorms == {0, 1, 2, 6, 7, 16, 32, 100}

OrthCall(vv, nW) ==
    [ pc |-> "call", W |-> nW, v0 |-> vv, v |-> vv, tau |-> None,
      first |-> None, passes |-> 0, projections |-> 0 ]

OrthIdle == [OrthCall(0, 0) EXCEPT !.pc = "idle"]

\* lines 882-885: what one pass leaves of <v, v>.  A W without columns
\* leaves v as it is, and the zero vector stays the zero vector.
ModGramSchmidt(vv, nW) ==
    IF nW = 0 \/ vv = 0 THEN {vv} ELSE SquaredNorms

RefineInclusive(tau, vv) ==
    tau # 0 /\ vv * Scale * Scale <= kappa * kappa * tau

\* line 895: inner_product(v, v) / tau < kappa**2; 0/0 is nan, and no
\* comparison with nan is true
Refine(tau, vv) ==
    tau # 0 /\ vv * Scale * Scale < kappa * kappa * tau

\* lines 887-888: tau and the first pass
OrthFirstPass ==
    /\ orth.pc = "call"
    /\ \E vv \in ModGramSchmidt(orth.v, orth.W) :
         orth' = [orth EXCEPT !.pc = "test",
                              !.tau = Some(orth.v),
                              !.v = vv,
                              !.first = Some(vv),
                              !.passes = @ + 1,
                              !.projections = @ + orth.W]
    /\ UNCHANGED <<newton, ritz, norm, krylov, proj, givens, jd>>

\* lines 895-896: the second pass
OrthSecondPass ==
    /\ orth.pc = "test"
    /\ Refine(Val(orth.tau), orth.v)
    /\ \E vv \in ModGramSchmidt(orth.v, orth.W) :
         orth' = [orth EXCEPT !.pc = "refined",
                              !.v = vv,
                              !.passes = @ + 1,
                              !.projections = @ + orth.W]
    /\ UNCHANGED <<newton, ritz, norm, krylov, proj, givens, jd>>

\* line 898
OrthReturn ==
    /\ \/ orth.pc = "test" /\ ~Refine(Val(orth.tau), orth.v)
       \/ orth.pc = "refined"
    /\ orth' = [orth EXCEPT !.pc = "returned"]
    /\ UNCHANGED <<newton, ritz, norm, krylov, proj, givens, jd>>

----------------------------------------------------------------------------
(* jacobi_davidson().  Residual norms and the tolerance are fixed-point.   *)

\* The residual norms ||Au - theta u|| an iteration can find.
JdResiduals == {0, 1, 5, 10, 50}

JdArgs ==
    { [num_unknowns |-> n, tol |-> t, maxiter |-> m] :
        n \in 1..MaxKrylov, t \in {1, 5, 10},
        m \in {None} \cup {Some(i) : i \in 0..MaxKrylov} }

\* lines 1125-1136: the frame on entry to the for loop.  bound tells whether
\* the locals theta and u are bound.
JdEntry(args) ==
    [ args    |-> args,
      pc      |-> "loop",
      raised  |-> "",
      maxiter |-> IF args.maxiter = None THEN args.num_unknowns
                  ELSE Val(args.maxiter),
      m       |-> 0,
      broke   |-> FALSE,
      bound   |-> FALSE,
      info    |-> 1,
      resvec  |-> <<>>,
      solves  |-> 0,
      ret     |-> <<>> ]

JdIdle == [JdEntry([num_unknowns |-> 1, tol |-> 1, maxiter |-> None])
              EXCEPT !.pc = "idle"]

\* lines 1192-1202: what minres returns to jacobi_davidson, a dict
CorrectionSolve == MinresResult(KrylovIdle)

\* lines 1203-1204: out[1] and out[0] look up the integer keys 1 and 0 of the
\* dict (written "1" and "0" here; the keys of the dict are strings that are
\* no numbers); a key the dict does not have raises KeyError
Subscript(d, key) == key \in d.keys

\* One pass of the loop body (lines 1137-1205).  The assertions of lines
\* 1143, 1152 and 1165 fire on a breakdown.
JdIterate ==
    /\ jd.pc = "loop"
    /\ ~jd.broke
    /\ jd.m < jd.maxiter
    /\ \E breakdown \in BOOLEAN, res \in JdResiduals :
         jd' =
           IF breakdown
           THEN [jd EXCEPT !.pc = "raised", !.raised = "AssertionError"]
           ELSE LET f == [jd EXCEPT !.bound = TRUE,
                                    !.resvec = Append(@, res)]
                IN  IF res < f.args.tol
                    THEN [f EXCEPT !.info = 0, !.broke = TRUE]
                    ELSE IF ~Subscript(CorrectionSolve, "1")
                              \/ ~Subscript(CorrectionSolve, "0")
                    THEN [f EXCEPT !.solves = @ + 1,
                                   !.pc = "raised", !.raised = "KeyError"]
                    ELSE [f EXCEPT !.solves = @ + 1, !.m = @ + 1]
    /\ UNCHANGED <<newton, ritz, norm, krylov, proj, givens, orth>>

\* line 1207: return theta, u, info, resvec.  theta and u are bound by the
\* first pass of the loop body.
JdReturn ==
    /\ jd.pc = "loop"
    /\ jd.broke \/ jd.m >= jd.maxiter
    /\ jd' = IF jd.bound
             THEN [jd EXCEPT !.pc = "returned",
                             !.ret = <<"theta", "u", jd.info, jd.resvec>>]
             ELSE [jd EXCEPT !.pc = "raised", !.raised = "UnboundLocalError"]
    /\ UNCHANGED <<newton, ritz, norm, krylov, proj, givens, orth>>

----------------------------------------------------------------------------
(* Specifications.                                                         *)

Init ==
    /\ orth = OrthIdle
    /\ jd = JdIdle
    /\ \E args \in NewtonArgs :
         \E F0 \in args.model_evaluator.norms : newton = NewtonEntry(args, F0)
    /\ ritz = RitzIdle
    /\ norm = NormIdle
    /\ krylov = KrylovIdle
    /\ proj = ProjIdle
    /\ givens = GivensIdle

Next ==
    \/ NewtonIterate
    \/ NewtonForcingError
    \/ NewtonCallError
    \/ NewtonReturn

Spec == Init /\ [][Next]_vars

InitRitz ==
    /\ orth = OrthIdle
    /\ jd = JdIdle
    /\ newton = NewtonIdle
    /\ norm = NormIdle
    /\ krylov = KrylovIdle
    /\ proj = ProjIdle
    /\ givens = GivensIdle
    /\ \E nW \in 0..MaxRitzW, n \in 0..MaxRitzKrylov :
         /\ nW + n >= 1
         /\ \E lam \in EighValues(RitzDim(nW, n + 1)),
               res \in SeqsOf(ResNorms, RitzDim(nW, n + 1)) :
              ritz = GetRitzCall(nW, n + 1, lam, res)

NextRitz == GetRitz

SpecRitz == InitRitz /\ [][NextRitz]_vars

InitNorm ==
    /\ orth = OrthIdle
    /\ jd = JdIdle
    /\ newton = NewtonIdle
    /\ ritz = RitzIdle
    /\ krylov = KrylovIdle
    /\ proj = ProjIdle
    /\ givens = GivensIdle
    /\ \E fn \in NormFunctions, re \in RealParts, im \in ImagParts :
         norm = NormCall(fn, Rho(re, im))

NextNorm == NormReturn

SpecNorm == InitNorm /\ [][NextNorm]_vars

InitKrylov ==
    /\ orth = OrthIdle
    /\ jd = JdIdle
    /\ newton = NewtonIdle
    /\ ritz = RitzIdle
    /\ norm = NormIdle
    /\ proj = ProjIdle
    /\ givens = GivensIdle
    /\ \E args \in KrylovArgs : krylov = KrylovEntry(args)

NextKrylov ==
    \/ KrylovSetup
    \/ CgIterate
    \/ MinresIterate
    \/ GmresIterate
    \/ CgReturn
    \/ MinresReturn
    \/ GmresReturn

SpecKrylov == InitKrylov /\ [][NextKrylov]_vars

InitProj ==
    /\ orth = OrthIdle
    /\ jd = JdIdle
    /\ newton = NewtonIdle
    /\ ritz = RitzIdle
    /\ norm = NormIdle
    /\ krylov = KrylovIdle
    /\ givens = GivensIdle
    /\ \E A \in Operators, W \in Bases, x \in Vectors :
         proj = ProjCall(W, Apply(A, W), <<Re(1), Re(1), Re(1)>>,
                         <<Zero, Re(1), Zero>>, x)

NextProj ==
    \/ GetProjection
    \/ ApplyProjection
    \/ ApplyProjectionAgain

SpecProj == InitProj /\ [][NextProj]_vars

InitGivens ==
    /\ orth = OrthIdle
    /\ jd = JdIdle
    /\ newton = NewtonIdle
    /\ ritz = RitzIdle
    /\ norm = NormIdle
    /\ krylov = KrylovIdle
    /\ proj = ProjIdle
    /\ \E a \in GivensScalars, b \in GivensScalars : givens = GivensCall(a, b)

NextGivens == Givens

SpecGivens == InitGivens /\ [][NextGivens]_vars

InitOrth ==
    /\ newton = NewtonIdle
    /\ ritz = RitzIdle
    /\ norm = NormIdle
    /\ krylov = KrylovIdle
    /\ proj = ProjIdle
    /\ givens = GivensIdle
    /\ jd = JdIdle
    /\ \E vv \in SquaredNorms, nW \in 0..MaxDeflation : orth = OrthCall(vv, nW)

NextOrth ==
    \/ OrthFirstPass
    \/ OrthSecondPass
    \/ OrthReturn

SpecOrth == InitOrth /\ [][NextOrth]_vars

InitJd ==
    /\ newton = NewtonIdle
    /\ ritz = RitzIdle
    /\ norm = NormIdle
    /\ krylov = KrylovIdle
    /\ proj = ProjIdle
    /\ givens = GivensIdle
    /\ orth = OrthIdle
    /\ \E args \in JdArgs : jd = JdEntry(args)

NextJd ==
    \/ JdIterate
    \/ JdReturn

SpecJd == InitJd /\ [][NextJd]_vars

----------------------------------------------------------------------------
(* Properties of newton().                                                 *)

Returned == newton.pc = "returned"
Converged == Last(newton.Fx_norms) <= newton.args.nonlinear_tol
KnownForcingTerm == newton.args.forcing_term \in {"constant", "type 1", "type 2"}
AdaptiveForcingTerm == newton.args.forcing_term \in {"type 1", "type 2"}
\* the Krylov iterations of the last linear solve
KrylovIterations == Len(newton.out.relresvec) - 1

\* C1: on every return of newton, error_code is 0 exactly when the last
\* entry of the residual-norm history is <= nonlinear_tol, and nonzero
\* exactly when the budget was exhausted without reaching nonlinear_tol.
C1_ErrorCodeIffNotConverged ==
    Returned => (newton.error_code = 0 <=> Converged)

\* C2: while newton runs and when it returns after k outer iterations,
\* k <= newton_maxiter, the linear solver was invoked k times, the
\* residual-norm history has k+1 entries and there are k linear residual
\* histories; no outer iteration starts once a norm <= nonlinear_tol is
\* recorded (every entry but the last is > nonlinear_tol); with
\* newton_maxiter = 1 and no convergence after one step the history has
\* length 2 and error_code # 0.
C2_IterationCounts ==
    newton.pc \in {"loop", "returned"} =>
        /\ newton.k <= newton.args.newton_maxiter
        /\ newton.solves = newton.k
        /\ Len(newton.Fx_norms) = newton.k + 1
        /\ Len(newton.linear_relresvecs) = newton.k
        /\ \A i \in 1..(Len(newton.Fx_norms) - 1) :
              newton.Fx_norms[i] > newton.args.nonlinear_tol
        /\ (Returned /\ newton.args.newton_maxiter = 1 /\ newton.k = 1 /\ ~Converged)
              => (Len(newton.Fx_norms) = 2 /\ newton.error_code # 0)

C2_Witness ==
    /\ Returned
    /\ newton.args.newton_maxiter = 1
    /\ newton.k = 1
    /\ ~Converged
    /\ Len(newton.Fx_norms) = 2
    /\ newton.error_code # 0

\* C3: a call with an unknown forcing term, an initial residual norm above
\* nonlinear_tol and newton_maxiter >= 1 raises the configuration error
\* instead of performing a linear solve and returning a result.
C3_UnknownForcingTermRaisesFirst ==
    (/\ ~KnownForcingTerm
     /\ newton.Fx_norms[1] > newton.args.nonlinear_tol
     /\ newton.args.newton_maxiter >= 1)
    => (newton.solves = 0 /\ ~Returned)

\* C4 as stated: under 'type 1' or 'type 2' with eta_min <= eta_max the
\* tolerance of every outer iteration, the first included, lies in
\* [eta_min, eta_max].
C4_EtaWithinBoundsAlways ==
    (/\ AdaptiveForcingTerm
     /\ newton.args.eta_min <= newton.args.eta_max
     /\ newton.eta # None)
    => (newton.args.eta_min <= Val(newton.eta) /\ Val(newton.eta) <= newton.args.eta_max)

\* C4 as amended: under 'type 1' or 'type 2' with eta_min <= eta_max the
\* tolerance of every outer iteration after the first lies in
\* [eta_min, eta_max]; the first iteration uses eta0 as given.
C4_EtaWithinBoundsAfterFirst ==
    (/\ AdaptiveForcingTerm
     /\ newton.args.eta_min <= newton.args.eta_max
     /\ newton.eta # None)
    => IF newton.eta_before = None
       THEN Val(newton.eta) = newton.args.eta0
       ELSE /\ newton.args.eta_min <= Val(newton.eta)
            /\ Val(newton.eta) <= newton.args.eta_max

C4_Witness ==
    /\ AdaptiveForcingTerm
    /\ newton.args.eta_min <= newton.args.eta_max
    /\ newton.args.eta0 > newton.args.eta_max
    /\ newton.k = 2
    /\ newton.eta_before = Some(newton.args.eta0)
    /\ newton.args.eta_min <= Val(newton.eta)
    /\ Val(newton.eta) <= newton.args.eta_max

\* the safeguard of 'type 1': max(eta_previous^golden, eta_min)
Type1Safeguard ==
    Max2(PowGolden(Val(newton.eta_before)), newton.args.eta_min)

\* C5 as stated: under 'type 1', in every outer iteration after the first
\* eta lies in [eta_min, max(eta_previous^golden, eta_min)].
C5_SafeguardIsUpperBound ==
    (newton.args.forcing_term = "type 1" /\ newton.eta_before # None)
    => (newton.args.eta_min <= Val(newton.eta) /\ Val(newton.eta) <= Type1Safeguard)

\* C5 as amended: under 'type 1', in every outer iteration after the first
\* max(eta_previous^golden, eta_min) is a lower bound of eta before the
\* clip to eta_max: min(max(eta_previous^golden, eta_min), eta_max) <= eta
\* <= eta_max.
C5_SafeguardIsLowerBound ==
    (newton.args.forcing_term = "type 1" /\ newton.eta_before # None)
    => /\ Min2(Type1Safeguard, newton.args.eta_max) <= Val(newton.eta)
       /\ Val(newton.eta) <= newton.args.eta_max

C5_Witness ==
    /\ newton.args.forcing_term = "type 1"
    /\ newton.eta_before # None
    /\ Type1Safeguard < Val(newton.eta)
    /\ Val(newton.eta) <= newton.args.eta_max

\* C6: whenever recycling is active, the columns the solver allocates for
\* its basis arrays keep their storage (16 bytes per scalar, N rows) within
\* 2^29 bytes, for every linear_solver_maxiter including None.
C6_BasisWithinMemoryBudget ==
    (newton.args.num_deflation_vectors > 0 /\ newton.out.has_basis)
    => newton.out.alloc_cols
          <= maxmem \div (newton.out.n_arrays * BytesPerScalar * newton.args.N)

\* C7: whichever of cg, minres and gmres is the linear solver, the call
\* newton makes is accepted: newton never ends in a call error.
C7_SolversAcceptNewtonKeywords ==
    newton.raised # "TypeError"

\* C10: at the end of every outer iteration W has min(num_deflation_vectors,
\* k+n) columns if recycling is active and the result holds the basis, and
\* none otherwise; W has at most num_deflation_vectors columns when an outer
\* iteration starts and at most one more when get_projection gets it.
C10_DeflationBasisSize ==
    (newton.pc \in {"loop", "returned"} /\ newton.k >= 1) =>
        /\ newton.W =
              IF newton.args.num_deflation_vectors > 0 /\ newton.out.has_basis
              THEN Min2(newton.args.num_deflation_vectors,
                        newton.nW_proj + KrylovIterations)
              ELSE 0
        /\ newton.nW_start <= newton.args.num_deflation_vectors
        /\ newton.nW_proj <= newton.args.num_deflation_vectors + 1
        /\ newton.W <= newton.args.num_deflation_vectors

C10_Witness ==
    /\ newton.pc = "loop"
    /\ newton.k >= 1
    /\ newton.args.num_deflation_vectors > 0
    /\ newton.nW_start = newton.args.num_deflation_vectors
    /\ newton.nW_proj = newton.args.num_deflation_vectors + 1
    /\ newton.nW_proj + KrylovIterations > newton.args.num_deflation_vectors
    /\ newton.W = newton.args.num_deflation_vectors

----------------------------------------------------------------------------
(* Properties of get_ritz().                                               *)

\* C8: the residual norms get_ritz returns are in ascending order, so the
\* first j Ritz vectors are the j with the smallest residual norms.
C8_ResidualNormsAscending ==
    ritz.pc = "done" => IsAscending(ritz.norm_ritz_res)

----------------------------------------------------------------------------
(* Properties of _norm_squared() and _norm().                              *)

\* C11: a call of _norm_squared or _norm raises exactly when the imaginary
\* part of the inner product exceeds 1e-10 times its magnitude or its real
\* part is negative; otherwise it returns the real part, respectively the
\* square root of the real part.
C11_NormRaisesOrReturnsRealPart ==
    norm.pc \in {"returned", "raised"} =>
        LET re == norm.rho.re
            im == norm.rho.im
            r  == Val(norm.result)
        IN  /\ norm.pc = "raised" <=> (im * im > re * re \/ re < 0)
            /\ norm.pc = "raised" => norm.raised = "ValueError"
            /\ norm.pc = "returned" =>
                 IF norm.fn = "_norm_squared"
                 THEN r = re
                 ELSE r >= 0 /\ r * r <= re * Scale /\ (r + 1) * (r + 1) > re * Scale

\* a call that returns although the imaginary part is not zero
C11_Witness ==
    /\ norm.pc = "returned"
    /\ norm.fn = "_norm"
    /\ norm.rho.im # 0
    /\ Val(norm.result) > 0

----------------------------------------------------------------------------
(* Properties of cg(), minres() and gmres().                               *)

Solver == krylov.args.solver
SolverReturned == krylov.pc = "returned"
Tol == krylov.args.tol
Budget == Val(krylov.maxiter)
LastResidual == Last(krylov.relresvec)
LastExplicit == Last(krylov.explicits)
\* the entries of the history that an iteration appended
Appended == 2..Len(krylov.relresvec)

\* C12: in cg, minres and gmres, a solve that has met a negative
\* preconditioner form <z, Mz>, in the setup or in an iteration, is aborted
\* with an error and does not continue.
C12_NegativeFormAborts ==
    krylov.neg_forms > 0 => krylov.pc = "raised"

\* C13: cg iterates exactly while the last recorded residual is above tol
\* and k < maxiter; it raises only on a form _norm_squared rejects, never
\* on an exhausted budget; on return relresvec has k + 1 entries and info is
\* nonzero exactly when the last of them is above tol.
C13_CgStopsOnToleranceOrBudget ==
    Solver = "cg" =>
        /\ krylov.pc = "raised" => krylov.neg_forms > 0
        /\ SolverReturned =>
             /\ Len(krylov.relresvec) = krylov.k + 1
             /\ krylov.k <= Budget
             /\ \A i \in 1..krylov.k : krylov.relresvec[i] > Tol
             /\ LastResidual <= Tol \/ krylov.k = Budget
             /\ krylov.info # 0 <=> LastResidual > Tol

\* cg returns with an empty budget and without convergence
C13_Witness ==
    /\ Solver = "cg"
    /\ SolverReturned
    /\ Budget = 0
    /\ krylov.info = 1

\* C14: minres and gmres raise only on a form _norm rejects, never on
\* non-convergence, and return info nonzero exactly when the last entry of
\* the residual history is above tol.
C14_InfoIffAboveTolerance ==
    Solver \in {"minres", "gmres"} =>
        /\ krylov.pc = "raised" => krylov.neg_forms > 0
        /\ SolverReturned => (krylov.info # 0 <=> LastResidual > Tol)

C16_GmresStopsOnExplicitResidual ==
    (Solver = "gmres" /\ ~krylov.args.explicit_residual /\ SolverReturned
        /\ krylov.k >= 1 /\ krylov.k < Budget) =>
        /\ LastExplicit # None
        /\ LastResidual <= Tol

\* C17: every entry of the residual history minres returns is at least
\* machine epsilon.
C17_MinresHistoryAtLeastEps ==
    (Solver = "minres" /\ SolverReturned) =>
        \A i \in 1..Len(krylov.relresvec) : krylov.relresvec[i] >= eps

\* C18: minres and gmres return, after k iterations, a history of k + 1
\* entries; with return_basis they return Vfull with k + 1 columns, Pfull
\* (where present) with k + 1 columns and Hfull of shape (k + 1) x k, and
\* without return_basis none of these keys.
C18_BasisGrowsWithIterations ==
    (Solver \in {"minres", "gmres"} /\ SolverReturned) =>
        /\ Len(krylov.relresvec) = krylov.k + 1
        /\ Len(krylov.estimates) = krylov.k + 1
        /\ IF krylov.args.return_basis
           THEN /\ {"Vfull", "Hfull"} \subseteq krylov.ret.keys
                /\ krylov.ret.Vfull = krylov.k + 1
                /\ krylov.ret.Hfull = <<krylov.k + 1, krylov.k>>
                /\ "Pfull" \in krylov.ret.keys => krylov.ret.Pfull = krylov.k + 1
                /\ Solver = "minres" => "Pfull" \in krylov.ret.keys
           ELSE krylov.ret.keys \cap {"Vfull", "Pfull", "Hfull"} = {}

\* gmres with a preconditioner returns its bases after two iterations
C18_Witness ==
    /\ Solver = "gmres"
    /\ SolverReturned
    /\ krylov.args.return_basis
    /\ krylov.k = 2
    /\ "Pfull" \in krylov.ret.keys
    /\ krylov.ret.Vfull = 3

----------------------------------------------------------------------------
(* Properties of get_projection().                                         *)

Hermitian(E) == \A i, j \in 1..Len(E) : E[i][j] = Conj(E[j][i])
IsZero(v) == \A n \in 1..Len(v) : v[n] = Zero
SameQuotient(p, q) ==
    \A n \in 1..Len(p.num) : ZMul(p.num[n], q.den) = ZMul(q.num[n], p.den)

----------------------------------------------------------------------------
(* Properties of _givens().                                                *)

\* the fixed-point rounding allowed in a comparison
Rounding == Scale \div 20
Near(x, y) == Abs(x - y) <= Rounding
AbsSquared(z) == FMul(z.re, z.re) + FMul(z.im, z.im)

\* C20: for every pair (a, b), a = 0, b = 0 and a = b = 0 included,
\* _givens returns a rotation with |c|^2 + |s|^2 = 1 that maps (a, b) to
\* (r, 0) with r real and >= 0; it scales by |b| exactly when
\* |b| > |a| > 0 and by |a| exactly when |a| >= |b| > 0.
C20_GivensIsRotation ==
    givens.pc \in {"returned", "raised"} =>
        LET a == givens.a
            b == givens.b
            G == givens.G
            image == Rotate(G, a, b)
        IN  /\ givens.pc = "returned"
            /\ ~givens.nan
            /\ Near(AbsSquared(G[1][1]) + AbsSquared(G[1][2]), Scale)
            /\ givens.r >= 0
            /\ Near(image[1].re, givens.r) /\ Near(image[1].im, 0)
            /\ Near(image[2].re, 0) /\ Near(image[2].im, 0)
            /\ givens.branch = "scaled by |b|" <=> (CAbs(b) > CAbs(a) /\ CAbs(a) > 0)
            /\ givens.branch = "scaled by |a|" <=> (CAbs(a) >= CAbs(b) /\ CAbs(b) > 0)

\* ---------------------------------------------------------------------------
\* newton: the symmetry direction, failed solves and the forcing term
\* ---------------------------------------------------------------------------

\* C23: between the QR step and the call of get_projection W gains exactly one
\* column when deflate_ix is enabled and the norm of the orthogonalized i*x
\* is > 1e-10, and no column otherwise; it never gains more than one.
C23_SymmetryDirectionAddsAtMostOneColumn ==
    LET grown == newton.nW_proj - QrCols(newton.nW_start)
    IN  /\ grown \in {0, 1}
        /\ ~newton.args.deflate_ix => grown = 0
        /\ (newton.args.deflate_ix /\ newton.nrm_u # None) =>
              (grown = 1 <=> Val(newton.nrm_u) > IxThreshold)

C23_Witness ==
    /\ newton.args.deflate_ix
    /\ newton.nW_start >= 1
    /\ newton.nrm_u = Some(IxThreshold + 1)
    /\ newton.nW_proj = newton.nW_start + 1

\* C24: an outer iteration whose linear solve returns info # 0 ends like any
\* other: the history of the solve is recorded, k advances by one, a new
\* residual norm is appended and newton is back at the head of its loop.
C24_FailedSolveDoesNotAbort ==
    [][ (newton'.solves = newton.solves + 1 /\ newton'.out.info # 0) =>
          /\ newton'.pc = "loop"
          /\ newton'.k = newton.k + 1
          /\ newton'.linear_relresvecs =
                Append(newton.linear_relresvecs, newton'.out.relresvec)
          /\ Len(newton'.Fx_norms) = Len(newton.Fx_norms) + 1 ]_vars

C24_Witness ==
    /\ newton.k = 2
    /\ newton.out.info # 0
    /\ Last(newton.linear_relresvecs[1]) > newton.args.eta0

\* C26: when the loop is about to evaluate the 'type 1' or 'type 2' branch, a
\* linear solve of the preceding outer iteration and two residual norms
\* exist; the first outer iteration uses eta0 for every policy.
C26_AdaptiveBranchHasHistory ==
    /\ ( /\ newton.pc = "loop"
         /\ LoopCondition(newton)
         /\ newton.args.forcing_term \in {"type 1", "type 2"}
         /\ ~UsesEta0(newton) ) =>
           /\ newton.k >= 1
           /\ newton.solves >= 1
           /\ Len(newton.Fx_norms) >= 2
           /\ newton.out.relresvec # <<>>
           /\ newton.out.relresvec = Last(newton.linear_relresvecs)
    /\ (newton.eta # None /\ newton.eta_before = None) =>
           Val(newton.eta) = newton.args.eta0

C26_Witness ==
    /\ newton.k = 2
    /\ newton.args.forcing_term = "type 1"
    /\ newton.eta_before # None
    /\ Val(newton.eta) # newton.args.eta0

\* ---------------------------------------------------------------------------
\* cg, minres, gmres: budget, projected matrix, solution and objects
\* ---------------------------------------------------------------------------

\* the budget of the call as the caller gave it: maxiter, or N when maxiter
\* was not given
GivenBudget ==
    IF krylov.args.maxiter = None THEN krylov.args.N ELSE Val(krylov.args.maxiter)

\* C21: a call of cg, minres or gmres performs at most maxiter iterations (N
\* when maxiter is not given), its counter and its history grow by one per
\* iteration, and it returns at the first recorded relative residual <= tol
\* or when the counter equals maxiter.
C21_AtMostMaxiterIterations ==
    /\ krylov.pc \in {"loop", "returned"} =>
          /\ krylov.k <= GivenBudget
          /\ Len(krylov.relresvec) = krylov.k + 1
    /\ krylov.pc = "returned" =>
          /\ LastResidual <= Tol \/ krylov.k = GivenBudget
          /\ \A i \in 1..krylov.k : krylov.relresvec[i] > Tol

\* C25: the Hfull minres returns after k iterations is zero outside its three
\* diagonals, its leading k x k block is symmetric, and column j holds td of
\* iteration j on the diagonal and ts of iteration j below it.
C25_HfullIsTridiagonal ==
    (Solver = "minres" /\ krylov.pc = "returned" /\ krylov.args.return_basis) =>
        LET H == krylov.ret.Hentries
            k == krylov.k
        IN  /\ DOMAIN H = (0..k) \X (0..(k - 1))
            /\ \A ij \in DOMAIN H : Abs(ij[1] - ij[2]) > 1 => H[ij] = 0
            /\ \A i \in 0..(k - 2) : H[<<i, i + 1>>] = H[<<i + 1, i>>]
            /\ \A j \in 0..(k - 1) :
                  /\ H[<<j, j>>] = krylov.tds[j + 1]
                  /\ H[<<j + 1, j>>] = krylov.tss[j + 1]

C25_Witness ==
    /\ Solver = "minres"
    /\ krylov.pc = "returned"
    /\ krylov.args.return_basis
    /\ krylov.k = 2
    /\ krylov.ret.Hentries[<<0, 1>>] = 3
    /\ krylov.ret.Hentries[<<2, 1>>] = 1

C28_HistoryStartsWithInitialResidual ==
    SolverReturned =>
        /\ krylov.relresvec[1] = krylov.args.r0
        /\ krylov.args.r0 <= Tol => (krylov.k = 0 /\ krylov.info = 0)

\* C30: no solver writes in place into x0 or b, and the solution it returns
\* is not the caller's x0.
C30_InputsAreNotShared ==
    /\ krylov.written \cap CallerObjects = {}
    /\ SolverReturned => krylov.xk_obj \notin CallerObjects

\* ---------------------------------------------------------------------------
\* orth_vec and jacobi_davidson
\* ---------------------------------------------------------------------------

\* C22: orth_vec makes one pass over all columns of W, a second one exactly
\* when <v,v> after the first pass divided by <v,v> before it is < 0.0625,
\* never a third, and returns v unchanged when W has no columns.
C22_OrthVecRefinesOnce ==
    orth.pc = "returned" =>
        /\ orth.passes \in {1, 2}
        /\ orth.projections = orth.passes * orth.W
        /\ orth.passes = 2 <=>
              /\ Val(orth.tau) # 0
              /\ 10000 * Val(orth.first) < 625 * Val(orth.tau)
        /\ orth.W = 0 => (orth.v = orth.v0 /\ orth.passes = 1)

C22_Witness ==
    /\ orth.pc = "returned"
    /\ orth.W = 2
    /\ orth.tau = Some(100)
    /\ orth.first = Some(6)
    /\ orth.passes = 2

\* C29: jacobi_davidson ends by a breakdown assertion or returns
\* (theta, u, info, resvec): info = 0 and m+1 residuals when the residual of
\* iteration m is the first below tol, info = 1 and maxiter residuals when
\* none is.
C29_JacobiDavidsonReturnsTuple ==
    /\ jd.pc = "raised" => jd.raised = "AssertionError"
    /\ jd.pc = "returned" =>
          \/ /\ jd.info = 0
             /\ Len(jd.resvec) = jd.m + 1
             /\ Last(jd.resvec) < jd.args.tol
             /\ \A i \in 1..jd.m : jd.resvec[i] >= jd.args.tol
          \/ /\ jd.info = 1
             /\ Len(jd.resvec) = jd.maxiter
             /\ \A i \in 1..jd.maxiter : jd.resvec[i] >= jd.args.tol

====
